---- MODULE Spec2Model ----
(***************************************************************************)
(* A model of src/compressionmodule.c, the C half of pyfits.compression:   *)
(* the typed header lookups, the construction of the table column          *)
(* descriptors, the configuration of the tile-compression fields of the    *)
(* fitsfile structure, and the tiling arithmetic of the reference          *)
(* (commented) wrappers.                                                   *)
(*                                                                         *)
(* Representation.                                                         *)
(*   - A C string is a TLA+ string; a fixed char array is the string it  *)
(*     holds, its size and whether it holds a terminator.                  *)
(*   - A double is an integer number of tenths (1.0 is 10, 0.5 is 5).      *)
(*   - A C integer is the signed reading of its bit pattern, so the -1     *)
(*     that a failed conversion returns stays -1 whatever the width.       *)
(*   - A Python object is a record [t, s, n]: its type, its text when it   *)
(*     is a str, its number when it is an int (units) or a float (tenths). *)
(***************************************************************************)
EXTENDS Integers, Sequences, FiniteSets, TLC

VARIABLES
    header,     \* the PyFITS Header object: keyword -> Python object
    pyerr,      \* the interpreter's pending exception ("none" when clear)
    last,       \* the function that returned last
    ret,        \* arguments and result of the last get_header_* call
    columns,    \* *columns: the tcolumn array of tcolumns_from_header
    tfields,    \* *tfields
    tret,       \* return value of tcolumns_from_header
    tstatus,    \* the local status of tcolumns_from_header at its return
    Fptr,       \* the compression fields of fileptr->Fptr
    naxes,      \* tiling: image extent per axis (ZNAXISn)
    tileSize,   \* tiling: tile extent per axis (ZTILEn)
    ntiles,     \* tiling: the tile count computed by the loop
    nextTile,   \* tile decode: next tile index of the work queue
    task,       \* tile decode: per worker, the tile it holds and its progress
    written,    \* tile decode: per pixel index, the tiles that have written it
    call,       \* the running compression_decompress_hdu call: its inputs,
                \* its position and its locals
    exc         \* process_status_err: its argument, the library's message
                \* stack and the PyErr_SetString calls it has made

vars == <<header, pyerr, last, ret, columns, tfields, tret, tstatus, Fptr,
          naxes, tileSize, ntiles, nextTile, task, written, call, exc>>

hdrVars == <<header, pyerr, last, ret, columns, tfields, tret, tstatus, Fptr>>

tileVars == <<naxes, tileSize, ntiles, nextTile, task, written>>

callVars == <<call, exc>>

(***************************************************************************)
(* Bounds of the model.                                                    *)
(***************************************************************************)
\* number of table columns whose keywords the enumerated headers vary
MaxCols == 2

\* largest image extent and tile extent of the tiling specifications
MaxExtent == 3

(***************************************************************************)
(* Program constants.                                                      *)
(***************************************************************************)
NULL_UNDEFINED == 1234554321

MAX_COMPRESS_DIM == 6

RICE_1 == 11

GZIP_1 == 21

PLIO_1 == 31

HCOMPRESS_1 == 41

BAD_TFORM == 261

BAD_TFORM_DTYPE == 262

\* sizes of tcolumn.ttype, tcolumn.tform, tcolumn.strnull and of tkw
TTYPE_SIZE == 70

TFORM_SIZE == 10

STRNULL_SIZE == 20

TKW_SIZE == 9

(***************************************************************************)
(* C strings and char arrays.                                              *)
(***************************************************************************)
Min(a, b) == IF a < b THEN a ELSE b

\* the first n characters of the string s
Take(s, n) == SubSeq(s, 1, Min(Len(s), n))

\* A char array of the given size is [size, text, term]: text is what it
\* holds before its first NUL, or all of it when term is FALSE and no byte
\* of the array is known to be NUL.

\* a fresh array whose first byte has been set: field[0] = '\0'
EmptyField(size) == [size |-> size, text |-> "", term |-> TRUE]

\* strncpy(dst, src, n) over an array whose string is empty: n bytes are
\* written, the characters of src and then NUL padding; when src has n
\* characters or more no NUL is written
strncpy(dst, src, n) ==
    [size |-> dst.size, text |-> Take(src, n), term |-> Len(src) < n]

\* dst[idx] = '\0'
Terminate(dst, idx) ==
    [size |-> dst.size, text |-> Take(dst.text, idx),
     term |-> dst.term \/ idx < dst.size]

RECURSIVE UStr(_)
\* the output of printf's %u
UStr(n) ==
    IF n < 10
    THEN SubSeq("0123456789", n + 1, n + 1)
    ELSE UStr(n \div 10) \o SubSeq("0123456789", (n % 10) + 1, (n % 10) + 1)

\* snprintf(tkw, size, "<prefix>%u", idx): at most size - 1 characters
snprintf(size, prefix, idx) == Take(prefix \o UStr(idx), size - 1)

(***************************************************************************)
(* Python objects and the interpreter's error indicator.                   *)
(***************************************************************************)
NoErr == "none"

PyStr(s) == [t |-> "str", s |-> s, n |-> 0]

PyInt(n) == [t |-> "int", s |-> "", n |-> n]

\* a Python float, in tenths
PyFloat(d) == [t |-> "float", s |-> "", n |-> d]

\* an entry whose lookup raises something else than KeyError
PyRaises == [t |-> "raises", s |-> "", n |-> 0]

\* PyObject_GetItem(header, keystr) != NULL
GetItemOk(h, kw) == kw \in DOMAIN h /\ h[kw].t # "raises"

\* the exception PyObject_GetItem leaves when it returns NULL
GetItemErr(h, kw) == IF kw \in DOMAIN h THEN "RuntimeError" ELSE "KeyError"

\* PyErr_Clear()
PyErr_Clear(err) == NoErr

\* PyString_AsString: the buffer of a str, else NULL and a TypeError
PyString_AsString(v, err) ==
    IF v.t = "str"
    THEN [null |-> FALSE, s |-> v.s, n |-> 0, err |-> err]
    ELSE [null |-> TRUE, s |-> "", n |-> 0, err |-> "TypeError"]

\* PyLong_AsLong: the value of an int, else -1 and a TypeError
PyLong_AsLong(v, err) ==
    IF v.t = "int"
    THEN [null |-> FALSE, s |-> "", n |-> v.n, err |-> err]
    ELSE [null |-> FALSE, s |-> "", n |-> -1, err |-> "TypeError"]

\* PyLong_AsLongLong: as PyLong_AsLong
PyLong_AsLongLong(v, err) ==
    IF v.t = "int"
    THEN [null |-> FALSE, s |-> "", n |-> v.n, err |-> err]
    ELSE [null |-> FALSE, s |-> "", n |-> -1, err |-> "TypeError"]

\* PyLong_AsDouble: the value of an int as a double; any other object,
\* a float included, gives -1.0 and an exception (written TypeError here;
\* older interpreters raise SystemError from PyErr_BadInternalCall)
PyLong_AsDouble(v, err) ==
    IF v.t = "int"
    THEN [null |-> FALSE, s |-> "", n |-> 10 * v.n, err |-> err]
    ELSE [null |-> FALSE, s |-> "", n |-> -10, err |-> "TypeError"]

(***************************************************************************)
(* The four header lookups.  Each returns [null, s, n, err]: the C value   *)
(* (a char* that may be NULL, or a number) and the error indicator after   *)
(* the call, given the indicator err before it.                            *)
(***************************************************************************)
\* the branch keyval == NULL of the lookups, without PyErr_Clear
ErrorLeft(def, err) ==
    [null |-> FALSE, s |-> def.s, n |-> def.n, err |-> err]

\* the branch keyval == NULL: PyErr_Clear(); value = def
LookupDefault(def, err) ==
    [null |-> FALSE, s |-> def.s, n |-> def.n, err |-> PyErr_Clear(err)]

get_header_string(h, keyword, def, err) ==
    IF GetItemOk(h, keyword)
    THEN PyString_AsString(h[keyword], err)
    ELSE LookupDefault([s |-> def, n |-> 0], GetItemErr(h, keyword))

get_header_long(h, keyword, def, err) ==
    IF GetItemOk(h, keyword)
    THEN PyLong_AsLong(h[keyword], err)
    ELSE LookupDefault([s |-> "", n |-> def], GetItemErr(h, keyword))

get_header_double(h, keyword, def, err) ==
    IF GetItemOk(h, keyword)
    THEN PyLong_AsDouble(h[keyword], err)
    ELSE LookupDefault([s |-> "", n |-> def], GetItemErr(h, keyword))

get_header_longlong(h, keyword, def, err) ==
    IF GetItemOk(h, keyword)
    THEN PyLong_AsLongLong(h[keyword], err)
    ELSE LookupDefault([s |-> "", n |-> def], GetItemErr(h, keyword))

(***************************************************************************)
(* fits_binary_tform (CFITSIO's ffbnfm), which is not part of the module's *)
(* source: a TFORM value is [repeat]<type letter>[width].  It follows the  *)
(* library's convention that a call made with status > 0 returns at once   *)
(* and leaves its outputs alone.                                           *)
(***************************************************************************)
Digit == {"0", "1", "2", "3", "4", "5", "6", "7", "8", "9"}

DigitVal(c) == CHOOSE d \in 0..9 : SubSeq("0123456789", d + 1, d + 1) = c

\* the data type code and the element width of each type letter; the width
\* of a character column is its own width field, or else its repeat count
TformTypes ==
    [L |-> [code |-> 14, width |-> 1], X |-> [code |-> 1, width |-> 1],
     B |-> [code |-> 11, width |-> 1], I |-> [code |-> 21, width |-> 2],
     J |-> [code |-> 41, width |-> 4], K |-> [code |-> 81, width |-> 8],
     E |-> [code |-> 42, width |-> 4], D |-> [code |-> 82, width |-> 8],
     C |-> [code |-> 83, width |-> 8], M |-> [code |-> 163, width |-> 16],
     A |-> [code |-> 16, width |-> 1]]

\* the number of leading characters of s, from position from on, that are in set
RECURSIVE Span(_, _, _)
Span(s, from, set) ==
    IF from <= Len(s) /\ SubSeq(s, from, from) \in set
    THEN 1 + Span(s, from + 1, set)
    ELSE 0

\* the value of the decimal digits s
RECURSIVE ParseUInt(_)
ParseUInt(s) ==
    IF Len(s) = 0
    THEN 0
    ELSE 10 * ParseUInt(SubSeq(s, 1, Len(s) - 1))
         + DigitVal(SubSeq(s, Len(s), Len(s)))

\* the character of s at position i, "" past its end
CharAt(s, i) == IF i <= Len(s) THEN SubSeq(s, i, i) ELSE ""

\* prev holds the caller's dtcode, trepeat, twidth and status before the call
fits_binary_tform(tform, prev) ==
    LET blanks == Span(tform, 1, {" "})
        ndig   == Span(tform, blanks + 1, Digit)
        digits == SubSeq(tform, blanks + 1, blanks + ndig)
        repeat == IF ndig = 0 THEN 1 ELSE ParseUInt(digits)
        first  == CharAt(tform, blanks + ndig + 1)
        varlen == first \in {"P", "Q"}
        letter == IF varlen THEN CharAt(tform, blanks + ndig + 2) ELSE first
        after  == blanks + ndig + (IF varlen THEN 3 ELSE 2)
        nwidth == Span(tform, after, Digit)
        width  == IF letter # "A" THEN TformTypes[letter].width
                  ELSE IF nwidth = 0 THEN repeat
                  ELSE ParseUInt(SubSeq(tform, after, after + nwidth - 1))
        fail(st) == [dtcode |-> 0, trepeat |-> 0, twidth |-> 0, status |-> st]
    IN  IF prev.status > 0 THEN prev
        ELSE IF blanks = Len(tform) THEN fail(BAD_TFORM)
        ELSE IF letter \notin DOMAIN TformTypes THEN fail(BAD_TFORM_DTYPE)
        ELSE [dtcode  |-> IF varlen THEN -TformTypes[letter].code
                          ELSE TformTypes[letter].code,
              trepeat |-> repeat,
              twidth  |-> width,
              status  |-> 0]

\* TRUE when the TFORM value parses: it has a recognised type letter
TformOk(tform) ==
    fits_binary_tform(tform, [dtcode |-> 0, trepeat |-> 0, twidth |-> 0,
                              status |-> 0]).status = 0

(***************************************************************************)
(* tcolumns_from_header.                                                   *)
(***************************************************************************)
\* a string field filled by strncpy alone, over the whole field
StoreStringUnterminated(size, src) == strncpy(EmptyField(size), src, size)

\* a string field of a fresh tcolumn: field[0] = '\0'; strncpy(field, src,
\* size - 1); field[size - 1] = '\0'
StoreString(size, src) ==
    Terminate(strncpy(EmptyField(size), src, size - 1), size - 1)

\* the keyword of column idx that the loop formats into tkw[9]
tkw(prefix, idx) == snprintf(TKW_SIZE, prefix, idx)

\* one iteration of the loop: the column built for idx, with the locals
\* (dtcode, trepeat, twidth, status) and the error indicator it leaves
ColumnStep(h, idx, locals, err) ==
    LET ttype  == get_header_string(h, tkw("TTYPE", idx), "", err)
        tbcol  == get_header_longlong(h, tkw("TBCOL", idx), 0, ttype.err)
        tform  == get_header_string(h, tkw("TFORM", idx), "", tbcol.err)
        parsed == fits_binary_tform(tform.s, locals)
        tscal  == get_header_double(h, tkw("TSCAL", idx), 10, tform.err)
        tzero  == get_header_double(h, tkw("TZERO", idx), 0, tscal.err)
        tnull  == get_header_longlong(h, tkw("TNULL", idx), NULL_UNDEFINED,
                                      tzero.err)
    IN  [column |->
            [ttype     |-> StoreString(TTYPE_SIZE, ttype.s),
             tbcol     |-> tbcol.n,
             tdatatype |-> parsed.dtcode,
             trepeat   |-> parsed.trepeat,
             strnull   |-> EmptyField(STRNULL_SIZE),
             tform     |-> StoreString(TFORM_SIZE, tform.s),
             twidth    |-> parsed.twidth,
             tscale    |-> tscal.n,
             tzero     |-> tzero.n,
             tnull     |-> tnull.n],
         locals |-> parsed,
         err    |-> tnull.err]

RECURSIVE ColumnLoop(_, _, _, _, _, _)
\* for (idx = from; idx <= n; idx++, column++), the iterations taken in
\* order: those of the first half of from..n, then those of the second.
\* The first half has appended one column per index; the test of that
\* length makes TLC evaluate it before the second half starts.
ColumnLoop(h, from, n, cols, locals, err) ==
    IF from > n
    THEN [columns |-> cols, locals |-> locals, err |-> err]
    ELSE IF from = n
    THEN LET step == ColumnStep(h, from, locals, err)
         IN  [columns |-> Append(cols, step.column),
              locals |-> step.locals, err |-> step.err]
    ELSE LET mid   == (from + n) \div 2
             first == ColumnLoop(h, from, mid, cols, locals, err)
         IN  IF Len(first.columns) = Len(cols) + (mid - from + 1)
             THEN ColumnLoop(h, mid + 1, n, first.columns, first.locals,
                             first.err)
             ELSE first

\* the result of the call: *tfields, *columns, the value returned, the local
\* status at the return and the error indicator
tcolumns_from_header(h, err) ==
    LET tf   == get_header_long(h, "TFIELDS", 0, err)
        loop == ColumnLoop(h, 1, tf.n, <<>>,
                           [dtcode |-> 0, trepeat |-> 0, twidth |-> 0,
                            status |-> 0], tf.err)
    IN  [tfields |-> tf.n,
         columns |-> loop.columns,
         ret     |-> 0,
         status  |-> loop.locals.status,
         err     |-> loop.err]

(***************************************************************************)
(* configure_compression.  The header is an argument that the function    *)
(* does not read: every field is set from literals and from the two       *)
(* static arrays.                                                          *)
(***************************************************************************)
\* static long __znaxis[6], __tilesize[6], indexed from 0
znaxis_static == [a \in 0..(MAX_COMPRESS_DIM - 1) |->
                     IF a = 0 THEN 440 ELSE IF a = 1 THEN 300 ELSE 0]

tilesize_static == [a \in 0..(MAX_COMPRESS_DIM - 1) |->
                       IF a = 0 THEN 440 ELSE IF a = 1 THEN 1 ELSE 0]

\* CFITSIO's imcomp_calc_max_elem for RICE_1: the largest compressed tile
imcomp_calc_max_elem(comptype, nx, zbitpix, blocksize) ==
    IF comptype = RICE_1
    THEN (IF zbitpix = 16 THEN 2 * nx ELSE 4 * nx) + nx \div blocksize + 2 + 4
    ELSE nx * 4

\* the fitsfile structure as fits_create_memfile allocates it: zero filled
FptrZero ==
    [compressimg |-> 0, zcmptype |-> "", compress_type |-> 0, zbitpix |-> 0,
     zndim |-> 0,
     znaxis |-> [a \in 0..(MAX_COMPRESS_DIM - 1) |-> 0],
     tilesize |-> [a \in 0..(MAX_COMPRESS_DIM - 1) |-> 0],
     maxtilelen |-> 0, rice_blocksize |-> 0, rice_bytepix |-> 0,
     maxelem |-> 0, cn_compressed |-> 0, cn_uncompressed |-> 0,
     cn_gzip_data |-> 0, cn_zscale |-> 0, cn_zzero |-> 0, cn_zblank |-> 0,
     zscale |-> 0, cn_bscale |-> 0, zzero |-> 0, zblank |-> 0,
     tableptr |-> "NULL", hdutype |-> 0, datastart |-> 0, tfield |-> 0,
     origrows |-> 0, numrows |-> 0, rowlength |-> 0, heapstart |-> 0,
     heapsize |-> 0]

configure_compression(fp, h) ==
    LET f1 == [fp EXCEPT
                  !.compressimg = 1,
                  !.zcmptype = "RICE_1",
                  !.compress_type = RICE_1,
                  !.zbitpix = 16,
                  !.zndim = 2,
                  !.znaxis = znaxis_static,
                  !.tilesize = tilesize_static,
                  !.maxtilelen = 440,
                  !.rice_blocksize = 32,
                  !.rice_bytepix = 2]
    IN  [f1 EXCEPT
            !.maxelem = imcomp_calc_max_elem(f1.compress_type, f1.maxtilelen,
                                             f1.zbitpix, f1.rice_blocksize),
            !.cn_compressed = 1,
            !.cn_uncompressed = -1,
            !.cn_gzip_data = -1,
            !.cn_zscale = -1,
            !.cn_zzero = -1,
            !.cn_zblank = -1,
            !.zscale = 10,
            !.cn_bscale = 10]

(***************************************************************************)
(* The tiling loop of the reference wrappers (compression_compressData):   *)
(* the arrays are set to 1 on every axis, then the first naxis axes take   *)
(* the ZNAXISn and ZTILEn values while maxtilelen and ntiles accumulate.   *)
(* nax and ts are indexed from 0.                                          *)
(***************************************************************************)
\* the per-axis factor with the division taken of the whole extent
TilesAlongFloor(n, t) == n \div t

\* the per-axis factor with one added to the quotient of the whole extent
TilesAlongPlusOne(n, t) == n \div t + 1

\* the per-axis factor of ntiles: (naxes[ii] - 1) / tileSize[ii] + 1
TilesAlong(n, t) == (n - 1) \div t + 1

RECURSIVE TilingLoop(_, _, _, _, _)
\* for (ii = from; ii < naxis; ii++)
TilingLoop(from, naxis, nax, ts, acc) ==
    IF from >= naxis
    THEN acc
    ELSE TilingLoop(from + 1, naxis, nax, ts,
                    [acc EXCEPT !.znaxis[from] = nax[from],
                                !.tilesize[from] = ts[from],
                                !.maxtilelen = @ * ts[from],
                                !.ntiles = @ * TilesAlong(nax[from], ts[from])])

\* the fields the wrapper has set when the loop ends
Tiling(naxis, nax, ts) ==
    TilingLoop(0, naxis, nax, ts,
               [zndim |-> naxis,
                maxtilelen |-> 1,
                tilesize |-> [ii \in 0..(MAX_COMPRESS_DIM - 1) |-> 1],
                znaxis |-> [ii \in 0..(MAX_COMPRESS_DIM - 1) |-> 1],
                ntiles |-> 1])

(***************************************************************************)
(* The headers of the model.  A header is a function from keywords to      *)
(* Python objects.  TTYPEn and TFORMn hold strings, as PyFITS keeps them;  *)
(* TSCALn and TZEROn hold ints or floats; the other keywords hold ints.    *)
(***************************************************************************)
EmptyHeader == [k \in {} |-> PyInt(0)]

\* a column name of 75 characters and one of exactly 70
LongName ==
    "ABCDEFGHIJKLMNOPQRSTUVWXYZABCDEFGHIJKLMNOPQRSTUVWXYZABCDEFGHIJKLMNOPQRSTUVW"

Name70 ==
    "0123456789012345678901234567890123456789012345678901234567890123456789"

Variants == 0..9

\* the keywords of column i in variant v
ColVariant(v, i) ==
    LET k(prefix) == prefix \o UStr(i)
    IN  CASE v = 0 -> (k("TTYPE") :> PyStr("COMPRESSED_DATA"))
                      @@ (k("TFORM") :> PyStr("1PB(434)"))
          [] v = 1 -> (k("TTYPE") :> PyStr("ZSCALE"))
                      @@ (k("TFORM") :> PyStr("1D"))
                      @@ (k("TSCAL") :> PyFloat(5))
                      @@ (k("TZERO") :> PyFloat(25))
                      @@ (k("TNULL") :> PyInt(-32768))
          [] v = 2 -> (k("TTYPE") :> PyStr("COUNTS"))
                      @@ (k("TBCOL") :> PyInt(9))
                      @@ (k("TFORM") :> PyStr("320B"))
                      @@ (k("TSCAL") :> PyInt(2))
                      @@ (k("TZERO") :> PyInt(3))
                      @@ (k("TNULL") :> PyInt(0))
          [] v = 3 -> (k("TTYPE") :> PyStr(LongName))
                      @@ (k("TFORM") :> PyStr("12PE(123456)"))
          [] v = 4 -> (k("TTYPE") :> PyStr(Name70))
                      @@ (k("TFORM") :> PyStr("1234567890"))
          [] v = 5 -> (k("TTYPE") :> PyStr(Take(Name70, 69)))
                      @@ (k("TFORM") :> PyStr("12345678J"))
          [] v = 6 -> (k("TTYPE") :> PyStr("BLANKFORM"))
                      @@ (k("TFORM") :> PyStr(""))
          [] v = 7 -> (k("TTYPE") :> PyStr("BADLETTER"))
                      @@ (k("TFORM") :> PyStr("1Z"))
                      @@ (k("TSCAL") :> PyInt(4))
          [] v = 8 -> (k("TTYPE") :> PyRaises)
                      @@ (k("TFORM") :> PyStr("1E"))
                      @@ (k("TZERO") :> PyRaises)
          [] OTHER -> EmptyHeader

RECURSIVE ColsPart(_, _)
\* the keywords of columns 1..n, column i in variant v + i - 1
ColsPart(v, n) ==
    IF n = 0
    THEN EmptyHeader
    ELSE ColsPart(v, n - 1)
         @@ ColVariant((v + n - 1) % Cardinality(Variants), n)

\* the keywords of the table geometry
GeometryPart ==
    ("NAXIS1" :> PyInt(8)) @@ ("NAXIS2" :> PyInt(300))
    @@ ("PCOUNT" :> PyInt(1000))

\* the tables: TFIELDS absent, or 0..MaxCols
TableHeaders ==
    { (IF tf < 0 THEN EmptyHeader ELSE "TFIELDS" :> PyInt(tf))
      @@ ColsPart(v, MaxCols) @@ GeometryPart :
        tf \in -1..MaxCols, v \in Variants }

\* tables that declare 1000 columns
WideHeaders ==
    { ("TFIELDS" :> PyInt(1000)) @@ ColsPart(2, MaxCols) @@ ColVariant(1, 100)
      @@ last1000 @@ GeometryPart :
        last1000 \in {EmptyHeader, ColVariant(2, 1000)} }

CmpTypes ==
    {"RICE_1", "GZIP_1", "HCOMPRESS_1", "PLIO_1", "NOCOMPRESS", "rice_1", ""}

\* the keywords of the compressed image: the 440 x 300 16-bit fixture, and
\* a 32-bit cube with its own Rice parameters
ImagePart(g) ==
    IF g = 0
    THEN ("ZBITPIX" :> PyInt(16)) @@ ("ZNAXIS" :> PyInt(2))
         @@ ("ZNAXIS1" :> PyInt(440)) @@ ("ZNAXIS2" :> PyInt(300))
         @@ ("ZTILE1" :> PyInt(440)) @@ ("ZTILE2" :> PyInt(1))
    ELSE ("ZBITPIX" :> PyInt(32)) @@ ("ZNAXIS" :> PyInt(3))
         @@ ("ZNAXIS1" :> PyInt(4)) @@ ("ZNAXIS2" :> PyInt(3))
         @@ ("ZNAXIS3" :> PyInt(2))
         @@ ("ZTILE1" :> PyInt(2)) @@ ("ZTILE2" :> PyInt(3))
         @@ ("ZTILE3" :> PyInt(1))
         @@ ("ZVAL1" :> PyInt(16)) @@ ("ZVAL2" :> PyInt(4))

\* the compressed images: "" stands for a header without ZCMPTYPE
ImageHeaders ==
    { (IF c = "" THEN EmptyHeader ELSE "ZCMPTYPE" :> PyStr(c))
      @@ ImagePart(g) @@ ("TFIELDS" :> PyInt(1)) @@ ColsPart(0, 1)
      @@ GeometryPart :
        c \in CmpTypes, g \in {0, 1} }

Headers == TableHeaders \cup ImageHeaders

\* the arguments of the direct calls of the lookups
LookupKeys == {"TFIELDS", "TTYPE1", "TSCAL1", "ZCMPTYPE", "NOSUCH"}

StringDefaults == {"", "dflt"}

NumberDefaults == {0, 7}

(***************************************************************************)
(* The specification of the header functions.                              *)
(***************************************************************************)
NoCall ==
    [fn |-> "", keyword |-> "", miss |-> FALSE, def |-> [s |-> "", n |-> 0],
     val |-> [null |-> FALSE, s |-> "", n |-> 0], before |-> EmptyHeader]

\* the tiling variables when the tiling is not under study
TileIdle ==
    /\ naxes = <<>>
    /\ tileSize = <<>>
    /\ ntiles = 0
    /\ nextTile = 0
    /\ task = <<>>
    /\ written = <<>>

\* the header variables before any call, on the header h
HeaderStart(h) ==
    /\ header = h
    /\ pyerr = NoErr
    /\ last = "start"
    /\ ret = NoCall
    /\ columns = <<>>
    /\ tfields = 0
    /\ tret = 0
    /\ tstatus = 0
    /\ Fptr = FptrZero

\* no compression_decompress_hdu call and no process_status_err call
CallIdle ==
    /\ call = <<>>
    /\ exc = <<>>

\* the state before any call, on the header h
Start(h) == HeaderStart(h) /\ TileIdle /\ CallIdle

Init == \E h \in Headers : Start(h)

\* a lookup has returned r for (fn, keyword, def)
Returned(fn, keyword, def, r) ==
    /\ ret' = [fn |-> fn, keyword |-> keyword,
               miss |-> ~GetItemOk(header, keyword), def |-> def,
               val |-> [null |-> r.null, s |-> r.s, n |-> r.n],
               before |-> header]
    /\ pyerr' = r.err
    /\ last' = fn
    /\ UNCHANGED <<header, columns, tfields, tret, tstatus, Fptr>>
    /\ UNCHANGED tileVars
    /\ UNCHANGED callVars

GetHeaderString ==
    \E keyword \in LookupKeys, def \in StringDefaults :
        Returned("get_header_string", keyword, [s |-> def, n |-> 0],
                 get_header_string(header, keyword, def, pyerr))

GetHeaderLong ==
    \E keyword \in LookupKeys, def \in NumberDefaults :
        Returned("get_header_long", keyword, [s |-> "", n |-> def],
                 get_header_long(header, keyword, def, pyerr))

GetHeaderDouble ==
    \E keyword \in LookupKeys, def \in NumberDefaults :
        Returned("get_header_double", keyword, [s |-> "", n |-> def],
                 get_header_double(header, keyword, def, pyerr))

GetHeaderLongLong ==
    \E keyword \in LookupKeys, def \in NumberDefaults :
        Returned("get_header_longlong", keyword, [s |-> "", n |-> def],
                 get_header_longlong(header, keyword, def, pyerr))

TcolumnsFromHeader ==
    LET r == tcolumns_from_header(header, pyerr)
    IN  /\ columns' = r.columns
        /\ tfields' = r.tfields
        /\ tret' = r.ret
        /\ tstatus' = r.status
        /\ pyerr' = r.err
        /\ last' = "tcolumns_from_header"
        /\ UNCHANGED <<header, ret, Fptr>>
        /\ UNCHANGED tileVars
        /\ UNCHANGED callVars

ConfigureCompression ==
    /\ Fptr' = configure_compression(Fptr, header)
    /\ last' = "configure_compression"
    /\ UNCHANGED <<header, pyerr, ret, columns, tfields, tret, tstatus>>
    /\ UNCHANGED tileVars
    /\ UNCHANGED callVars

Next ==
    \/ GetHeaderString
    \/ GetHeaderLong
    \/ GetHeaderDouble
    \/ GetHeaderLongLong
    \/ TcolumnsFromHeader
    \/ ConfigureCompression

Spec == Init /\ [][Next]_vars

(***************************************************************************)
(* The same functions on the tables that declare 1000 columns.             *)
(***************************************************************************)
WideInit == \E h \in WideHeaders : Start(h)

WideNext ==
    \/ TcolumnsFromHeader
    \/ GetHeaderString
    \/ ConfigureCompression

WideSpec == WideInit /\ [][WideNext]_vars

(***************************************************************************)
(* Tile decoding.  The tiling is the one the loop of the reference wrapper *)
(* computes from ZNAXISn and ZTILEn.  The decoding is the design of the    *)
(* specification: workers take tile indices from a queue; a tile index is  *)
(* decomposed against the per-axis tile counts, axis 0 fastest; the tile's *)
(* region on axis a is [coord * tile, min((coord + 1) * tile, extent)),    *)
(* and the worker writes the pixels of the region one at a time.           *)
(***************************************************************************)
Workers == {"w1", "w2"}

\* the dimensionalities of the images
TileDims == {1, 2}

NoTile == [tile |-> -1, k |-> 0]

\* the axes of the configured image
Axes == 0..(Fptr.zndim - 1)

\* the number of tiles along axis a
TileCount(a) == TilesAlong(Fptr.znaxis[a], Fptr.tilesize[a])

RECURSIVE TilesBelow(_)
\* the number of tiles of the axes below a: the weight of axis a in a tile index
TilesBelow(a) == IF a = 0 THEN 1 ELSE TilesBelow(a - 1) * TileCount(a - 1)

RECURSIVE PixelsIn(_, _)
\* the number of pixels of the axes below a, of extents znaxis
PixelsIn(znaxis, a) ==
    IF a = 0 THEN 1 ELSE PixelsIn(znaxis, a - 1) * znaxis[a - 1]

\* the weight of axis a in a pixel index
PixelsBelow(a) == PixelsIn(Fptr.znaxis, a)

\* the coordinate of tile t on axis a
TileCoord(t, a) == (t \div TilesBelow(a)) % TileCount(a)

RegionLo(t, a) == TileCoord(t, a) * Fptr.tilesize[a]

RegionHi(t, a) ==
    Min((TileCoord(t, a) + 1) * Fptr.tilesize[a], Fptr.znaxis[a])

\* the index of the pixel p in the row-major image, axis 0 fastest
PixelIndex(p) ==
    LET Sum[a \in 0..Fptr.zndim] ==
            IF a = 0 THEN 0 ELSE Sum[a - 1] + p[a - 1] * PixelsBelow(a - 1)
    IN  Sum[Fptr.zndim]

\* the pixels of the region of tile t, as pixel indices
RegionPixels(t) ==
    { PixelIndex(p) :
        p \in { q \in [Axes -> 0..(MaxExtent - 1)] :
                  \A a \in Axes : RegionLo(t, a) <= q[a] /\ q[a] < RegionHi(t, a) } }

\* the k-th pixel of the region of tile t, from 0, in increasing index
RegionPixel(t, k) ==
    CHOOSE i \in RegionPixels(t) :
        Cardinality({j \in RegionPixels(t) : j < i}) = k

TileInit ==
    /\ HeaderStart(EmptyHeader)
    /\ \E naxis \in TileDims :
        /\ naxes \in [0..(naxis - 1) -> 1..MaxExtent]
        /\ tileSize \in [0..(naxis - 1) -> 1..MaxExtent]
    /\ ntiles = 0
    /\ nextTile = 0
    /\ task = [w \in Workers |-> NoTile]
    /\ written = <<>>
    /\ CallIdle

\* the wrapper sets up the tiling; no pixel of the image is written yet
ComputeTiling ==
    /\ last = "start"
    /\ LET t == Tiling(Cardinality(DOMAIN naxes), naxes, tileSize)
       IN  /\ Fptr' = [Fptr EXCEPT !.zndim = t.zndim,
                                   !.znaxis = t.znaxis,
                                   !.tilesize = t.tilesize,
                                   !.maxtilelen = t.maxtilelen]
           /\ ntiles' = t.ntiles
           /\ written' = [i \in 0..(PixelsIn(t.znaxis, t.zndim) - 1) |-> <<>>]
    /\ last' = "tiling"
    /\ UNCHANGED <<header, pyerr, ret, columns, tfields, tret, tstatus>>
    /\ UNCHANGED <<naxes, tileSize, nextTile, task>>
    /\ UNCHANGED callVars

\* a free worker takes the next tile index of the queue
TakeTile(w) ==
    /\ last = "tiling"
    /\ task[w] = NoTile
    /\ nextTile < ntiles
    /\ task' = [task EXCEPT ![w] = [tile |-> nextTile, k |-> 0]]
    /\ nextTile' = nextTile + 1
    /\ UNCHANGED hdrVars
    /\ UNCHANGED callVars
    /\ UNCHANGED <<naxes, tileSize, ntiles, written>>

\* a worker writes the next pixel of its tile's region
WritePixel(w) ==
    /\ task[w] # NoTile
    /\ task[w].k < Cardinality(RegionPixels(task[w].tile))
    /\ LET i == RegionPixel(task[w].tile, task[w].k)
       IN  written' = [written EXCEPT ![i] = Append(@, task[w].tile)]
    /\ task' = [task EXCEPT ![w].k = @ + 1]
    /\ UNCHANGED hdrVars
    /\ UNCHANGED callVars
    /\ UNCHANGED <<naxes, tileSize, ntiles, nextTile>>

\* a worker that has written its whole region is free again
FinishTile(w) ==
    /\ task[w] # NoTile
    /\ task[w].k = Cardinality(RegionPixels(task[w].tile))
    /\ task' = [task EXCEPT ![w] = NoTile]
    /\ UNCHANGED hdrVars
    /\ UNCHANGED callVars
    /\ UNCHANGED <<naxes, tileSize, ntiles, nextTile, written>>

\* every tile has been taken and every worker is free
AllDone ==
    /\ last = "tiling"
    /\ nextTile = ntiles
    /\ \A w \in Workers : task[w] = NoTile

TileNext ==
    \/ ComputeTiling
    \/ \E w \in Workers : TakeTile(w)
    \/ \E w \in Workers : WritePixel(w)
    \/ \E w \in Workers : FinishTile(w)

TileSpec == TileInit /\ [][TileNext]_vars

(***************************************************************************)
(* compression_decompress_hdu and the two ways it opens its fitsfile.  The *)
(* call is followed statement by statement; call.pc is its position.  A    *)
(* local that the code reads before it assigns it (status in               *)
(* open_from_pyfits_hdu and in compression_decompress_hdu, fileptr when no  *)
(* library call has set it, filename on the in-memory path) takes any of    *)
(* the values the stack may hold.                                           *)
(***************************************************************************)
\* CFITSIO status codes, type codes and the size of one FITS block
FILE_NOT_OPENED == 104

MEMORY_ALLOCATION == 113

OVERFLOW_ERR == -11

BAD_COL_NUM == 302

BAD_PIX_NUM == 321

NEG_AXIS == 323

BAD_DATATYPE == 410

NO_COMPRESSED_TILE == 415

BINARY_TBL == 2

TSHORT == 21

NPY_INT16 == 3

MIN_BUFSIZE == 2880

\* what an uninitialised int may hold: zero, a positive or a negative value
StackGarbage == {0, FILE_NOT_OPENED, -1}

\* PyArray_NBYTES(data) of the HDUs of the model
DataSizes == {100, 2400, 2880, 8000}

\* the keywords of a table of n2 rows of n1 bytes with a heap of pc bytes;
\* pc < 0 stands for a header without PCOUNT
Geometry(n1, n2, pc) ==
    ("NAXIS1" :> PyInt(n1)) @@ ("NAXIS2" :> PyInt(n2))
    @@ (IF pc < 0 THEN EmptyHeader ELSE "PCOUNT" :> PyInt(pc))

Geometries ==
    {EmptyHeader}
    \cup { Geometry(8, n2, pc) : n2 \in {300, 1000}, pc \in {-1, 0, 1000} }

\* the _header of the HDUs handed to decompress_hdu
CallHeaders ==
    { ("ZCMPTYPE" :> PyStr("RICE_1")) @@ ImagePart(g)
      @@ ("TFIELDS" :> PyInt(1)) @@ ColsPart(0, 1) @@ geo :
        g \in {0, 1}, geo \in Geometries }

\* the call before its first statement: args is what PyArg_ParseTuple
\* finds, file is hdu._file (None, a file that exists, a file that is
\* missing), nbytes the size of hdu.data, tiles whether every tile of the
\* heap holds data
CallEntry(args, file, nbytes, tiles) ==
    [args |-> args, file |-> file, nbytes |-> nbytes, tiles |-> tiles,
     pc |-> "parse",
     fileptr |-> "uninit",      \* fitsfile* fileptr of the caller
     columns |-> "NULL",        \* tcolumn* columns of the caller
     live |-> 0,                \* tcolumn arrays allocated and not freed
     frees |-> 0,               \* calls of PyMem_Free
     bufsize |-> 0,             \* the length declared to the memory file
     handed |-> <<>>,           \* library calls and the status handed to each
     status |-> 0,              \* status after the last library call
     fileobj |-> "unset", filename |-> "unset",
     hdrref |-> "unset", dataref |-> "unset",
     decrefs |-> <<>>,          \* Py_DECREF and Py_XDECREF: operand, its state
     corrupt |-> FALSE,         \* a wild pointer has been written through
     outdata |-> "none",        \* none, unwritten, partial, full
     shape |-> <<>>, dtype |-> 0,
     datatype |-> 0, nelem |-> 0,   \* what fits_read_img was asked for
     read |-> FALSE,            \* the decoder has read from the buffer
     result |-> "none"]         \* none, NULL, outdata

Handed(c, fn, st) == Append(c.handed, [fn |-> fn, status |-> st])

\* the call leaves every variable but those of the call alone
CallOnly ==
    /\ UNCHANGED <<header, last, ret, columns, tfields, tret, tstatus, Fptr>>
    /\ UNCHANGED tileVars
    /\ UNCHANGED exc

\* PyArg_ParseTuple, and fileobj = PyObject_GetAttrString(hdu, "_file")
ParseArgs ==
    /\ call # <<>>
    /\ call.pc = "parse"
    /\ IF call.args = "bad"
       THEN /\ pyerr' = "TypeError"
            /\ call' = [call EXCEPT !.pc = "done", !.result = "NULL"]
       ELSE /\ pyerr' = pyerr
            /\ call' = [call EXCEPT !.pc = "open", !.fileobj = "held"]
    /\ CallOnly

\* fileobj != Py_None: filename = fileobj.name, then open_from_filename,
\* whose status starts at 0 and is dropped at its return
OpenFromFilename ==
    /\ call # <<>>
    /\ call.pc = "open"
    /\ call.file # "None"
    /\ call' = [call EXCEPT
                  !.pc = "release",
                  !.filename = "held",
                  !.handed = Handed(call, "fits_open_data", 0),
                  !.fileptr = IF call.file = "exists" THEN "file" ELSE "null",
                  !.status = IF call.file = "exists" THEN 0
                             ELSE FILE_NOT_OPENED]
    /\ pyerr' = pyerr
    /\ CallOnly

\* bufsize of open_from_pyfits_hdu: the array's bytes plus PCOUNT, and one
\* FITS block at least
BufSize(nbytes, pcount) ==
    IF nbytes + pcount < MIN_BUFSIZE THEN MIN_BUFSIZE ELSE nbytes + pcount

\* the fields open_from_pyfits_hdu sets after fits_create_memfile
Layout(fp, tf, rowlen, nrows, pcount) ==
    [fp EXCEPT !.tableptr = "columns",
               !.hdutype = BINARY_TBL,
               !.datastart = 0,
               !.tfield = tf,
               !.origrows = nrows,
               !.numrows = nrows,
               !.rowlength = rowlen,
               !.heapstart = rowlen * nrows,
               !.heapsize = pcount]

\* the caller's columns after open_from_pyfits_hdu(&fileptr, hdu, columns):
\* the pointer is passed by value, the callee's assignment stays in the
\* callee
ColumnsAfterOpen(caller, callee) == caller

\* fileobj == Py_None: open_from_pyfits_hdu, up to the return of
\* tcolumns_from_header.  The array it allocates is stored through the
\* callee's own columns.
OpenFromPyfitsHdu ==
    /\ call # <<>>
    /\ call.pc = "open"
    /\ call.file = "None"
    /\ LET r == tcolumns_from_header(header, pyerr)
       IN  /\ columns' = r.columns
           /\ tfields' = r.tfields
           /\ tret' = r.ret
           /\ tstatus' = r.status
           /\ pyerr' = r.err
    /\ call' = [call EXCEPT !.pc = "memfile",
                            !.hdrref = "held",
                            !.dataref = "held",
                            !.live = @ + 1,
                            !.columns = ColumnsAfterOpen(@, "columns")]
    /\ last' = "tcolumns_from_header"
    /\ UNCHANGED <<header, ret, Fptr>>
    /\ UNCHANGED tileVars
    /\ UNCHANGED exc

\* the rest of open_from_pyfits_hdu.  Its status is not assigned before
\* fits_create_memfile reads it; with a positive status the library returns
\* at once and *fileptr keeps the caller's uninitialised pointer, which the
\* next statement dereferences.
CreateMemfile ==
    /\ call # <<>>
    /\ call.pc = "memfile"
    /\ LET rowlen == get_header_longlong(header, "NAXIS1", 0, pyerr)
           nrows  == get_header_longlong(header, "NAXIS2", 0, rowlen.err)
           pcount == get_header_longlong(header, "PCOUNT", 0, nrows.err)
           fp     == configure_compression(
                         Layout(FptrZero, tfields, rowlen.n, nrows.n,
                                pcount.n), header)
       IN  /\ pyerr' = pcount.err
           /\ \E g \in StackGarbage :
                LET c == [call EXCEPT
                            !.bufsize = BufSize(call.nbytes, pcount.n),
                            !.handed = Handed(call, "fits_create_memfile", g),
                            !.status = g]
                IN  IF g > 0
                    THEN \/ /\ call' = [c EXCEPT !.pc = "crashed"]
                            /\ Fptr' = Fptr
                         \/ /\ call' = [c EXCEPT !.pc = "release",
                                                 !.fileptr = "wild",
                                                 !.corrupt = TRUE]
                            /\ Fptr' = fp
                    ELSE /\ call' = [c EXCEPT !.pc = "release",
                                              !.fileptr = "mem"]
                         /\ Fptr' = fp
    /\ last' = "open_from_pyfits_hdu"
    /\ UNCHANGED <<header, ret, columns, tfields, tret, tstatus>>
    /\ UNCHANGED tileVars
    /\ UNCHANGED exc

\* Py_DECREF(fileobj); Py_XDECREF(filename).  On the in-memory path filename
\* was never assigned: it may hold NULL, or a pointer whose reference count
\* is decremented wherever it points.
ReleaseRefs ==
    /\ call # <<>>
    /\ call.pc = "release"
    /\ LET c == [call EXCEPT
                    !.fileobj = "released",
                    !.decrefs = <<[ref |-> "fileobj", was |-> call.fileobj],
                                  [ref |-> "filename",
                                   was |-> call.filename]>>,
                    !.pc = "newarray"]
       IN  IF call.filename = "held"
           THEN call' = [c EXCEPT !.filename = "released"]
           ELSE \/ call' = c
                \/ call' = [c EXCEPT !.corrupt = TRUE]
                \/ call' = [c EXCEPT !.pc = "crashed"]
    /\ pyerr' = pyerr
    /\ CallOnly

\* outdata = PyArray_SimpleNew(2, znaxes, NPY_INT16) with znaxes {300, 440}
NewArray ==
    /\ call # <<>>
    /\ call.pc = "newarray"
    /\ call' = [call EXCEPT !.pc = "read",
                            !.outdata = "unwritten",
                            !.shape = <<300, 440>>,
                            !.dtype = NPY_INT16]
    /\ pyerr' = pyerr
    /\ CallOnly

\* fits_read_img(fileptr, TSHORT, 1, 440 * 300, NULL, outdata->data, &anynul,
\* &status), with the status the caller never assigned.  A positive status
\* makes the library return at once; otherwise it reads through fileptr.
ReadImg ==
    /\ call # <<>>
    /\ call.pc = "read"
    /\ \E g \in StackGarbage :
        LET c == [call EXCEPT !.handed = Handed(call, "fits_read_img", g),
                              !.datatype = TSHORT,
                              !.nelem = 440 * 300,
                              !.status = g]
        IN  IF g > 0
            THEN call' = [c EXCEPT !.pc = "free"]
            ELSE IF call.fileptr \notin {"mem", "file"}
            THEN call' = [c EXCEPT !.pc = "crashed"]
            ELSE IF call.tiles = "ok"
            THEN call' = [c EXCEPT !.pc = "free", !.read = TRUE,
                                   !.outdata = "full"]
            ELSE call' = [c EXCEPT !.pc = "free", !.read = TRUE,
                                   !.outdata = "partial",
                                   !.status = NO_COMPRESSED_TILE]
    /\ pyerr' = pyerr
    /\ CallOnly

\* if (columns != NULL) PyMem_Free(columns)
FreeColumns ==
    /\ call # <<>>
    /\ call.pc = "free"
    /\ IF call.columns # "NULL"
       THEN call' = [call EXCEPT !.pc = "return", !.frees = @ + 1,
                                 !.live = @ - 1, !.columns = "freed"]
       ELSE call' = [call EXCEPT !.pc = "return"]
    /\ pyerr' = pyerr
    /\ CallOnly

\* return outdata
ReturnOutdata ==
    /\ call # <<>>
    /\ call.pc = "return"
    /\ call' = [call EXCEPT !.pc = "done", !.result = "outdata"]
    /\ pyerr' = pyerr
    /\ CallOnly

CallInit ==
    /\ \E h \in CallHeaders : HeaderStart(h)
    /\ TileIdle
    /\ exc = <<>>
    /\ \E args \in {"hdu", "bad"}, file \in {"None", "exists", "missing"},
          nbytes \in DataSizes, tiles \in {"ok", "empty"} :
        call = CallEntry(args, file, nbytes, tiles)

CallNext ==
    \/ ParseArgs
    \/ OpenFromFilename
    \/ OpenFromPyfitsHdu
    \/ CreateMemfile
    \/ ReleaseRefs
    \/ NewArray
    \/ ReadImg
    \/ FreeColumns
    \/ ReturnOutdata

CallSpec == CallInit /\ [][CallNext]_vars

(***************************************************************************)
(* The reconstruction of a pixel from a stored sample.  The library does   *)
(* it inside fits_read_img, from the fields that configure_compression     *)
(* has set: cn_zscale, cn_zzero, cn_zblank are the numbers of the table    *)
(* columns that hold the per-tile values, or -1 when the values are the    *)
(* per-image zscale, zzero, zblank, or 0 when there are none.  Scales and   *)
(* pixels are in tenths.                                                   *)
(***************************************************************************)
\* the stored samples and the per-tile (scale, zero, blank) rows of the model
Samples == {0, 1, 3, -32768}

TileValues ==
    { [scale |-> 10, zero |-> 0, blank |-> 0],
      [scale |-> 5, zero |-> 25, blank |-> 3],
      [scale |-> 30, zero |-> -10, blank |-> -32768] }

\* the scale, zero and blank that the configuration fp selects for a tile
\* whose table row holds the values tile
ScaleOf(fp, tile) ==
    IF fp.cn_zscale > 0 THEN tile.scale
    ELSE IF fp.cn_zscale = -1 THEN fp.zscale ELSE 10

ZeroOf(fp, tile) ==
    IF fp.cn_zzero > 0 THEN tile.zero
    ELSE IF fp.cn_zzero = -1 THEN fp.zzero ELSE 0

BlankActive(fp) == fp.cn_zblank # 0

BlankOf(fp, tile) == IF fp.cn_zblank > 0 THEN tile.blank ELSE fp.zblank

\* blank substitution first, then value * scale + zero
Reconstruct(sample, scale, zero, blankActive, blank) ==
    IF blankActive /\ sample = blank
    THEN [missing |-> TRUE, value |-> 0]
    ELSE [missing |-> FALSE, value |-> sample * scale + zero]

\* the pixel of a stored sample under the configuration fp
ReconstructWith(fp, sample, tile) ==
    Reconstruct(sample, ScaleOf(fp, tile), ZeroOf(fp, tile), BlankActive(fp),
                BlankOf(fp, tile))

\* the headers of the images with a scale, a zero and a blank convention:
\* per-image keywords, per-tile table columns, or neither
ScaleKeywords ==
    {EmptyHeader, ("ZSCALE" :> PyInt(2)) @@ ("ZZERO" :> PyInt(10))}

BlankKeywords == {EmptyHeader, "ZBLANK" :> PyInt(-32768)}

ScaleColumns ==
    {"TFIELDS" :> PyInt(1),
     ("TFIELDS" :> PyInt(4))
     @@ ("TTYPE2" :> PyStr("ZSCALE")) @@ ("TFORM2" :> PyStr("1D"))
     @@ ("TTYPE3" :> PyStr("ZZERO")) @@ ("TFORM3" :> PyStr("1D"))
     @@ ("TTYPE4" :> PyStr("ZBLANK")) @@ ("TFORM4" :> PyStr("1J"))}

PixelHeaders ==
    { ("ZCMPTYPE" :> PyStr("RICE_1")) @@ ImagePart(0) @@ sk @@ bk @@ sc
      @@ ColsPart(0, 1) @@ GeometryPart :
        sk \in ScaleKeywords, bk \in BlankKeywords, sc \in ScaleColumns }

PixelInit == \E h \in PixelHeaders : Start(h)

\* one stored sample of one tile goes through the reconstruction
ReconstructSample ==
    /\ last \in {"configure_compression", "reconstruct"}
    /\ \E sample \in Samples, tile \in TileValues :
        ret' = [fn |-> "reconstruct", sample |-> sample, tile |-> tile,
                pixel |-> ReconstructWith(Fptr, sample, tile)]
    /\ last' = "reconstruct"
    /\ UNCHANGED <<header, pyerr, columns, tfields, tret, tstatus, Fptr>>
    /\ UNCHANGED tileVars
    /\ UNCHANGED callVars

PixelNext ==
    \/ ConfigureCompression
    \/ ReconstructSample

PixelSpec == PixelInit /\ [][PixelNext]_vars

(***************************************************************************)
(* process_status_err: the exception a library status is reported as.      *)
(* exc.stack is the library's queue of error messages, oldest first;       *)
(* exc.sets are the calls of PyErr_SetString the function has made.        *)
(***************************************************************************)
\* every status is reported as a RuntimeError
except_type_generic(status) == "RuntimeError"

\* the switch on the status
except_type(status) ==
    CASE status = MEMORY_ALLOCATION -> "MemoryError"
      [] status = OVERFLOW_ERR -> "OverflowError"
      [] status = BAD_COL_NUM -> "ValueError"
      [] status = BAD_PIX_NUM -> "ValueError"
      [] status = NEG_AXIS -> "ValueError"
      [] status = BAD_DATATYPE -> "TypeError"
      [] status = NO_COMPRESSED_TILE -> "ValueError"
      [] OTHER -> "RuntimeError"

\* def_err_msg after the switch: empty unless a case has copied a text
def_err_msg(status) ==
    CASE status = BAD_COL_NUM -> "bad column number"
      [] status = BAD_PIX_NUM -> "bad pixel number"
      [] status = NEG_AXIS -> "negative axis number"
      [] status = BAD_DATATYPE -> "bad data type"
      [] status = NO_COMPRESSED_TILE ->
            "no compressed or uncompressed data for tile."
      [] OTHER -> ""

\* fits_read_errmsg(err_msg): takes the oldest message off the queue and
\* returns non-zero, or returns 0 and an empty text when the queue is empty
fits_read_errmsg(stack) ==
    IF stack = <<>>
    THEN [found |-> FALSE, err_msg |-> "", stack |-> stack]
    ELSE [found |-> TRUE, err_msg |-> Head(stack), stack |-> Tail(stack)]

\* the call of PyErr_SetString that process_status_err makes, and the queue
\* it leaves
process_status_err(status, stack) ==
    LET read == fits_read_errmsg(stack)
        msg  == IF read.found THEN read.err_msg
                ELSE IF def_err_msg(status) # "" THEN def_err_msg(status)
                ELSE "unknown error."
    IN  [type |-> except_type(status), msg |-> msg, stack |-> read.stack]

\* the statuses and the message queues of the model
Statuses ==
    {0, MEMORY_ALLOCATION, OVERFLOW_ERR, BAD_COL_NUM, BAD_PIX_NUM, NEG_AXIS,
     BAD_DATATYPE, NO_COMPRESSED_TILE, FILE_NOT_OPENED, BAD_TFORM, -1}

MessageStacks ==
    {<<>>, <<"tile 7: heap read failed">>,
     <<"first queued message", "second queued message">>,
     <<Name70 \o "0123456789">>}

ErrInit ==
    /\ HeaderStart(EmptyHeader)
    /\ TileIdle
    /\ call = <<>>
    /\ \E status \in Statuses, stack \in MessageStacks :
        exc = [status |-> status, queued |-> stack, stack |-> stack,
               sets |-> <<>>, pc |-> "entry"]

\* an exception of another kind is pending when the function is called
RaiseEarlier ==
    /\ exc.pc = "entry"
    /\ pyerr = NoErr
    /\ pyerr' = "KeyError"
    /\ UNCHANGED <<header, last, ret, columns, tfields, tret, tstatus, Fptr>>
    /\ UNCHANGED tileVars
    /\ UNCHANGED <<call, exc>>

ProcessStatusErr ==
    /\ exc.pc = "entry"
    /\ LET r == process_status_err(exc.status, exc.stack)
       IN  /\ exc' = [exc EXCEPT
                        !.sets = Append(@, [type |-> r.type, msg |-> r.msg]),
                        !.stack = r.stack,
                        !.pc = "done"]
           /\ pyerr' = r.type
    /\ last' = "process_status_err"
    /\ UNCHANGED <<header, ret, columns, tfields, tret, tstatus, Fptr>>
    /\ UNCHANGED tileVars
    /\ UNCHANGED call

ErrNext ==
    \/ RaiseEarlier
    \/ ProcessStatusErr

ErrSpec == ErrInit /\ [][ErrNext]_vars

(***************************************************************************)
(* The claims about the header lookups and the column descriptors.         *)
(***************************************************************************)
LookupFns == {"get_header_string", "get_header_long", "get_header_double",
              "get_header_longlong"}

\* the keyword <prefix><i>, written in full
Keyword(prefix, i) == prefix \o UStr(i)

\* the keyword holds a value in the header
Present(h, kw) == kw \in DOMAIN h /\ h[kw].t # "raises"

\* the number a header value stands for, as a double in tenths
AsTenths(v) == IF v.t = "float" THEN v.n ELSE 10 * v.n

\* tcolumns_from_header has just returned
ColumnsBuilt == last = "tcolumns_from_header"

\* configure_compression has just returned
Configured == last = "configure_compression"

\* C1: when PyObject_GetItem finds no value for the keyword (it is absent,
\* or the lookup raises), each of the four lookups returns exactly the
\* caller's default, leaves no exception pending, and leaves the header as
\* it was.
C1_MissReturnsDefault ==
    (last \in LookupFns /\ ret.miss) =>
        /\ ~ret.val.null
        /\ ret.val.s = ret.def.s
        /\ ret.val.n = ret.def.n
        /\ pyerr = NoErr
        /\ header = ret.before

\* a float lookup of a keyword that is in the header but whose lookup
\* raises has returned its default 0.7
C1_Witness ==
    /\ last = "get_header_double"
    /\ ret.miss
    /\ ret.keyword \in DOMAIN header
    /\ ret.def.n = 7
    /\ ret.val.n = 7

\* C2: tcolumns_from_header produces exactly TFIELDS descriptors (0 when
\* TFIELDS is absent) and the descriptor at position i - 1 is built from the
\* keywords TTYPEi, TBCOLi, TFORMi, TSCALi, TZEROi, TNULLi of the same i.
C2_ColumnsFollowTheirKeywords ==
    ColumnsBuilt =>
        /\ Len(columns) = get_header_long(header, "TFIELDS", 0, NoErr).n
        /\ \A i \in 1..Len(columns) :
            /\ columns[i].ttype.text =
                 Take(get_header_string(header, Keyword("TTYPE", i), "",
                                        NoErr).s, 69)
            /\ columns[i].tbcol =
                 get_header_longlong(header, Keyword("TBCOL", i), 0, NoErr).n
            /\ columns[i].tform.text =
                 Take(get_header_string(header, Keyword("TFORM", i), "",
                                        NoErr).s, 9)
            /\ columns[i].tscale =
                 get_header_double(header, Keyword("TSCAL", i), 10, NoErr).n
            /\ columns[i].tzero =
                 get_header_double(header, Keyword("TZERO", i), 0, NoErr).n
            /\ columns[i].tnull =
                 get_header_longlong(header, Keyword("TNULL", i),
                                     NULL_UNDEFINED, NoErr).n

\* C3: a column whose TSCALi, TZEROi or TNULLi is absent gets the scale 1.0,
\* the zero point 0.0 and the null value NULL_UNDEFINED; a keyword that is
\* present gives the descriptor its own value.
C3_DefaultsAndOverrides ==
    ColumnsBuilt =>
        \A i \in 1..Len(columns) :
            LET scal == Keyword("TSCAL", i)
                zero == Keyword("TZERO", i)
                null == Keyword("TNULL", i)
            IN  /\ scal \notin DOMAIN header => columns[i].tscale = 10
                /\ zero \notin DOMAIN header => columns[i].tzero = 0
                /\ null \notin DOMAIN header =>
                       columns[i].tnull = NULL_UNDEFINED
                /\ Present(header, scal) =>
                       columns[i].tscale = AsTenths(header[scal])
                /\ Present(header, zero) =>
                       columns[i].tzero = AsTenths(header[zero])
                /\ Present(header, null) =>
                       columns[i].tnull = header[null].n

\* C4: when the TFORMi of some column is empty, has no type letter or has an
\* unrecognised one, tcolumns_from_header reports an error to its caller.
C4_BadTformFailsTheBuild ==
    (/\ ColumnsBuilt
     /\ \E i \in 1..tfields :
            ~TformOk(get_header_string(header, Keyword("TFORM", i), "",
                                       NoErr).s))
        => tret # 0

\* C5: the TTYPE and TFORM values read for a column are stored as their
\* first 69 and first 9 characters, terminated inside the field; values that
\* fit are stored whole; and the build does not fail.
C5_NamesAndFormsTruncated ==
    ColumnsBuilt =>
        /\ tret = 0
        /\ \A i \in 1..Len(columns) :
            LET name == get_header_string(header, tkw("TTYPE", i), "",
                                          NoErr).s
                form == get_header_string(header, tkw("TFORM", i), "",
                                          NoErr).s
                ttype == columns[i].ttype
                tform == columns[i].tform
            IN  /\ ttype.term /\ Len(ttype.text) < ttype.size
                /\ tform.term /\ Len(tform.text) < tform.size
                /\ ttype.text = IF Len(name) > 69 THEN SubSeq(name, 1, 69)
                                ELSE name
                /\ tform.text = IF Len(form) > 9 THEN SubSeq(form, 1, 9)
                                ELSE form

\* a column has been built from a name of more than 69 characters and a
\* form of more than 9, and holds 69 and 9 of them
C5_Witness ==
    /\ ColumnsBuilt
    /\ \E i \in 1..Len(columns) :
        /\ Present(header, Keyword("TTYPE", i))
        /\ Len(header[Keyword("TTYPE", i)].s) > 69
        /\ Present(header, Keyword("TFORM", i))
        /\ Len(header[Keyword("TFORM", i)].s) > 9
        /\ Len(columns[i].ttype.text) = 69
        /\ Len(columns[i].tform.text) = 9

(***************************************************************************)
(* The claims about the compression configuration.                         *)
(***************************************************************************)
\* the value of an integer keyword, def when it is absent
HeaderInt(kw, def) == get_header_long(header, kw, def, NoErr).n

\* the algorithm that the ZCMPTYPE of the header names
NamedAlgorithm ==
    LET zcmptype == get_header_string(header, "ZCMPTYPE", "", NoErr).s
    IN  CASE zcmptype = "RICE_1" -> RICE_1
          [] zcmptype = "GZIP_1" -> GZIP_1
          [] zcmptype = "HCOMPRESS_1" -> HCOMPRESS_1
          [] zcmptype = "PLIO_1" -> PLIO_1
          [] OTHER -> 0

\* C6: the configured algorithm is the one the header's ZCMPTYPE names by
\* exact match, and NONE (0) for any other value or an absent keyword.
C6_AlgorithmFollowsZcmptype ==
    Configured => Fptr.compress_type = NamedAlgorithm

\* C7: after the configuration, on every axis a of 0..MAX_COMPRESS_DIM-1 the
\* image extent and the tile extent are at least 1; below ZNAXIS they are
\* the header's ZNAXIS(a+1) and ZTILE(a+1), from ZNAXIS on they are 1.
C7_ExtentsFollowHeader ==
    Configured =>
        \A a \in 0..(MAX_COMPRESS_DIM - 1) :
            /\ Fptr.znaxis[a] >= 1
            /\ Fptr.tilesize[a] >= 1
            /\ IF a < HeaderInt("ZNAXIS", 0)
               THEN /\ Fptr.znaxis[a] = HeaderInt(Keyword("ZNAXIS", a + 1), 0)
                    /\ Fptr.tilesize[a] = HeaderInt(Keyword("ZTILE", a + 1), 0)
               ELSE /\ Fptr.znaxis[a] = 1
                    /\ Fptr.tilesize[a] = 1

\* C8: for RICE_1 the block size is ZVAL1 when present and 32 otherwise, and
\* the bytes per pixel are ZVAL2 when present and otherwise 4, or 2 for a
\* 16-bit image.
C8_RiceParametersFollowHeader ==
    (Configured /\ NamedAlgorithm = RICE_1) =>
        /\ Fptr.rice_blocksize = HeaderInt("ZVAL1", 32)
        /\ Fptr.rice_bytepix =
             HeaderInt("ZVAL2", IF HeaderInt("ZBITPIX", 0) = 16 THEN 2 ELSE 4)

(***************************************************************************)
(* The claims about the tiling.                                            *)
(***************************************************************************)
\* the least q with q * t >= n
CeilDiv(n, t) == CHOOSE q \in 0..n : q * t >= n /\ (q - 1) * t < n

RECURSIVE Product(_, _)
\* the product of f over 0..(n - 1)
Product(f, n) == IF n = 0 THEN 1 ELSE Product(f, n - 1) * f[n - 1]

OpenedInMemory ==
    /\ call # <<>>
    /\ last = "open_from_pyfits_hdu"
    /\ call.pc # "crashed"

\* the call has returned to Python
CallDone == call # <<>> /\ call.pc = "done"

\* C11: the heap layout set up by open_from_pyfits_hdu has row length
\* NAXIS1, row count NAXIS2, heap start NAXIS1 * NAXIS2 and heap size PCOUNT
\* (0 for an absent keyword), and heap start + heap size does not exceed the
\* length of the buffer handed to the decoder.
C11_HeapLayoutFollowsHeader ==
    OpenedInMemory =>
        /\ Fptr.rowlength = HeaderInt("NAXIS1", 0)
        /\ Fptr.numrows = HeaderInt("NAXIS2", 0)
        /\ Fptr.heapstart = HeaderInt("NAXIS1", 0) * HeaderInt("NAXIS2", 0)
        /\ Fptr.heapsize = HeaderInt("PCOUNT", 0)
        /\ Fptr.heapstart + Fptr.heapsize <= call.bufsize

\* C12: when PCOUNT is larger than the buffer length less the heap start,
\* the call fails before any byte of the buffer is read: no decode is
\* attempted and an error, not an image, is returned.
C12_OversizedHeapIsRefused ==
    (/\ OpenedInMemory
     /\ HeaderInt("PCOUNT", 0) >
            call.nbytes - HeaderInt("NAXIS1", 0) * HeaderInt("NAXIS2", 0))
        => /\ ~call.read
           /\ CallDone => (call.result = "NULL" /\ pyerr # NoErr)

\* a step of the call has reported a failure: the file could not be opened,
\* or the decoder met a tile without data
StepFailed ==
    \/ call.fileptr = "null"
    \/ call.read /\ call.tiles = "empty"

\* C13: when the open, the layout or the decode of a tile has reported a
\* non-zero status, the call returns an error and no image buffer; an image
\* buffer is returned only when every step has succeeded.
C13_DecodeIsAllOrNothing ==
    CallDone =>
        /\ StepFailed => (call.result = "NULL" /\ pyerr # NoErr)
        /\ call.result = "outdata" => call.outdata = "full"

\* the numpy type of an image of the given BITPIX (NPY_UBYTE, NPY_INT16,
\* NPY_INT32, NPY_INT64, NPY_FLOAT32, NPY_FLOAT64)
DtypeOf(bitpix) ==
    CASE bitpix = 8 -> 2
      [] bitpix = 16 -> 3
      [] bitpix = 32 -> 5
      [] bitpix = 64 -> 7
      [] bitpix = -32 -> 11
      [] bitpix = -64 -> 12
      [] OTHER -> 0

\* the numpy shape of the image of the header: the ZNAXISn, last axis first
DeclaredShape ==
    LET n == HeaderInt("ZNAXIS", 0)
    IN  [i \in 1..n |-> HeaderInt(Keyword("ZNAXIS", n + 1 - i), 0)]

RECURSIVE SeqProduct(_)
SeqProduct(q) == IF q = <<>> THEN 1 ELSE Head(q) * SeqProduct(Tail(q))

\* C14: the image buffer returned has the shape of the header's ZNAXISn,
\* reversed, the element type of the header's ZBITPIX, and as many samples
\* were requested from the decoder as the declared extents multiply to.
C14_OutputFollowsDeclaredShape ==
    (CallDone /\ call.result = "outdata") =>
        /\ call.shape = DeclaredShape
        /\ call.dtype = DtypeOf(HeaderInt("ZBITPIX", 0))
        /\ call.nelem = SeqProduct(DeclaredShape)

(***************************************************************************)
(* The claim about the reconstruction of the pixels.                       *)
(***************************************************************************)
\* the number of the table column of the header named name, 0 when none
ColumnNamed(name) ==
    LET n == HeaderInt("TFIELDS", 0)
        found == {i \in 1..n :
                     /\ Present(header, Keyword("TTYPE", i))
                     /\ header[Keyword("TTYPE", i)].s = name}
    IN  IF found = {} THEN 0 ELSE CHOOSE i \in found : \A j \in found : i <= j

\* the value of a numeric keyword of the header in tenths, def when absent
HeaderTenths(kw, def) ==
    IF Present(header, kw) THEN AsTenths(header[kw]) ELSE def

\* the scale, zero and blank conventions that the header declares
DeclaredScale(tile) ==
    IF ColumnNamed("ZSCALE") > 0 THEN tile.scale
    ELSE HeaderTenths("ZSCALE", 10)

DeclaredZero(tile) ==
    IF ColumnNamed("ZZERO") > 0 THEN tile.zero
    ELSE HeaderTenths("ZZERO", 0)

DeclaredBlankActive ==
    ColumnNamed("ZBLANK") > 0 \/ Present(header, "ZBLANK")

DeclaredBlank(tile) ==
    IF ColumnNamed("ZBLANK") > 0 THEN tile.blank ELSE HeaderInt("ZBLANK", 0)

\* C15: a sample that equals the blank sentinel of an active blank
\* convention becomes the missing-value marker whatever the scale and zero;
\* any other sample s becomes s * scale + zero with the tile's own pair
\* under the per-tile convention, else the per-image pair, else (1, 0).
C15_PixelsFollowDeclaredScaling ==
    last = "reconstruct" =>
        ret.pixel = Reconstruct(ret.sample, DeclaredScale(ret.tile),
                                DeclaredZero(ret.tile), DeclaredBlankActive,
                                DeclaredBlank(ret.tile))

(***************************************************************************)
(* The claims about the float lookup and about process_status_err.         *)
(***************************************************************************)
\* C16: when the keyword is present with a floating-point value v,
\* get_header_double returns v, and a column's scale and zero point are the
\* floats of its TSCALi and TZEROi.
C16_FloatLookupReturnsValue ==
    /\ (/\ last = "get_header_double"
        /\ Present(header, ret.keyword)
        /\ header[ret.keyword].t = "float")
          => ret.val.n = header[ret.keyword].n
    /\ ColumnsBuilt =>
          \A i \in 1..Len(columns) :
              /\ (/\ Present(header, Keyword("TSCAL", i))
                  /\ header[Keyword("TSCAL", i)].t = "float")
                    => columns[i].tscale = header[Keyword("TSCAL", i)].n
              /\ (/\ Present(header, Keyword("TZERO", i))
                  /\ header[Keyword("TZERO", i)].t = "float")
                    => columns[i].tzero = header[Keyword("TZERO", i)].n

\* the kind of exception that the claim gives each status
KindOf(status) ==
    IF status = MEMORY_ALLOCATION THEN "MemoryError"
    ELSE IF status = OVERFLOW_ERR THEN "OverflowError"
    ELSE IF status \in {BAD_COL_NUM, BAD_PIX_NUM, NEG_AXIS, NO_COMPRESSED_TILE}
    THEN "ValueError"
    ELSE IF status = BAD_DATATYPE THEN "TypeError"
    ELSE "RuntimeError"

\* C17: process_status_err sets exactly one exception, of the kind its
\* status determines, and its message is the library's oldest queued
\* message when there is one, else the default text of the status, else
\* "unknown error.".
C17_StatusBecomesOneException ==
    last = "process_status_err" =>
        /\ Len(exc.sets) = 1
        /\ exc.sets[1].type = KindOf(exc.status)
        /\ pyerr = KindOf(exc.status)
        /\ exc.sets[1].msg =
             IF exc.queued # <<>> THEN exc.queued[1]
             ELSE IF def_err_msg(exc.status) # "" THEN def_err_msg(exc.status)
             ELSE "unknown error."
        /\ exc.sets[1].msg # ""

\* a missing tile has been reported as a ValueError that carries the
\* library's oldest queued message
C17_Witness ==
    /\ last = "process_status_err"
    /\ exc.status = NO_COMPRESSED_TILE
    /\ exc.queued # <<>>
    /\ exc.sets = <<[type |-> "ValueError", msg |-> exc.queued[1]]>>
    /\ pyerr = "ValueError"

(***************************************************************************)
(* The claims about the buffer, the status and the column array of a       *)
(* compression_decompress_hdu call.                                        *)
(***************************************************************************)
\* C18: the buffer length that open_from_pyfits_hdu declares to the memory
\* file is never more than the bytes that back the HDU's data array.
C18_DeclaredLengthWithinArray ==
    (call # <<>> /\ last = "open_from_pyfits_hdu") =>
        call.bufsize <= call.nbytes

\* C19: the status handed to fits_open_data, fits_create_memfile and
\* fits_read_img is 0, so no call is skipped on a stale status and the image
\* that is returned has been written.
C19_StatusStartsAtZero ==
    call # <<>> =>
        /\ \A i \in DOMAIN call.handed : call.handed[i].status = 0
        /\ call.result = "outdata" => call.outdata # "unwritten"

\* C20: when the call returns, on the in-memory and on the file-backed
\* path, the column array that tcolumns_from_header allocated has been
\* freed exactly once; it is not freed while Fptr.tableptr points at it.
C20_ColumnsFreedOnce ==
    call # <<>> =>
        /\ CallDone => (call.live = 0 /\ call.frees <= 1)
        /\ (last = "open_from_pyfits_hdu" /\ CallDone) => call.frees = 1
        /\ (call.frees > 0 /\ ~CallDone) => Fptr.tableptr # "columns"

\* the object references that compression_decompress_hdu and
\* open_from_pyfits_hdu obtain with PyObject_GetAttrString
CallRefs == {"fileobj", "filename", "hdrref", "dataref"}

\* C21: in compression_decompress_hdu every reference that is released was
\* acquired on the same path, so filename is not touched on the in-memory
\* path where it was never assigned, and every reference acquired (fileobj,
\* filename, and the _header and data of open_from_pyfits_hdu) has been
\* released when the call returns.
C21_ReferencesBalance ==
    call # <<>> =>
        /\ \A i \in DOMAIN call.decrefs : call.decrefs[i].was = "held"
        /\ call.file = "None" =>
              \A i \in DOMAIN call.decrefs :
                  call.decrefs[i].ref # "filename"
        /\ CallDone => \A r \in CallRefs : call[r] # "held"

\* the prefixes of the six keywords that tcolumns_from_header formats for
\* each column
ColumnPrefixes == {"TTYPE", "TBCOL", "TFORM", "TSCAL", "TZERO", "TNULL"}

\* C22: for every column index i in 1..TFIELDS the keyword that
\* tcolumns_from_header formats into tkw is the prefix followed by all the
\* decimal digits of i, so that no two columns of a table look up the same
\* keyword.
C22_KeywordNamesItsColumn ==
    ColumnsBuilt =>
        \A p \in ColumnPrefixes :
            /\ \A i \in 1..tfields : tkw(p, i) = Keyword(p, i)
            /\ Cardinality({ tkw(p, i) : i \in 1..tfields }) = tfields

====
